---- MODULE Spec2Model ----
(***************************************************************************)
(* A model of AudioJsonHandler (fix_transcription_utils.py): the dataset   *)
(* state manager of the audio dataset curation tool.                       *)
(*                                                                         *)
(* Python strings are sequences of ASCII codes, so that substring tests,   *)
(* lexicographic comparison, int(), float() and zero-padded formatting are *)
(* computed the way the interpreter computes them.  An optional value is a *)
(* sequence of length 0 (None) or 1.  A JSON object (a dict) is a sequence *)
(* of entries in insertion order.                                          *)
(***************************************************************************)
EXTENDS Integers, Sequences, FiniteSets, TLC

None == <<>>
Some(x) == <<x>>

(***************************************************************************)
(* Strings                                                                 *)
(***************************************************************************)
EmptyStr == <<>>

IsDigit(c) == c >= 48 /\ c <= 57

AllDigits(s) == Len(s) > 0 /\ \A i \in 1..Len(s) : IsDigit(s[i])

RECURSIVE DigitsValue(_)
DigitsValue(s) ==
    IF s = <<>> THEN 0
    ELSE DigitsValue(SubSeq(s, 1, Len(s) - 1)) * 10 + (s[Len(s)] - 48)

HasSign(s) == Len(s) > 0 /\ s[1] \in {43, 45}

Unsigned(s) == IF HasSign(s) THEN Tail(s) ELSE s

\* int(s) succeeds: an optional sign followed by decimal digits.
IsInt(s) == AllDigits(Unsigned(s))

\* int(s)
ToInt(s) ==
    IF HasSign(s) /\ s[1] = 45 THEN 0 - DigitsValue(Tail(s))
    ELSE DigitsValue(Unsigned(s))

DotPositions(s) == {i \in 1..Len(s) : s[i] = 46}

\* float(s) succeeds: an optional sign, digits, at most one point, and at
\* least one digit.
IsFloat(s) ==
    LET u == Unsigned(s)
        dots == DotPositions(u)
    IN  /\ Len(u) > 0
        /\ Cardinality(dots) <= 1
        /\ \A i \in 1..Len(u) : IsDigit(u[i]) \/ u[i] = 46
        /\ \E i \in 1..Len(u) : IsDigit(u[i])

RECURSIVE Normalise(_, _)
Normalise(num, scale) ==
    IF scale > 0 /\ num % 10 = 0 THEN Normalise(num \div 10, scale - 1)
    ELSE [num |-> num, scale |-> scale]

\* float(s): the decimal value num / 10^scale in lowest terms, so that
\* "3" and "3.0" are the same number.
ToFloat(s) ==
    LET u == Unsigned(s)
        digits == SelectSeq(u, IsDigit)
        dots == DotPositions(u)
        scale == IF dots = {} THEN 0 ELSE Len(u) - (CHOOSE i \in dots : TRUE)
        mag == Normalise(DigitsValue(digits), scale)
    IN  IF HasSign(s) /\ s[1] = 45
        THEN [num |-> 0 - mag.num, scale |-> mag.scale]
        ELSE mag

\* sub in s
Contains(sub, s) ==
    \E i \in 0..(Len(s) - Len(sub)) : SubSeq(s, i + 1, i + Len(sub)) = sub

\* a <= b for Python strings: code point by code point, then by length.
StrLeq(a, b) ==
    LET n == IF Len(a) < Len(b) THEN Len(a) ELSE Len(b)
        diff == {i \in 1..n : a[i] # b[i]}
    IN  IF diff = {} THEN Len(a) <= Len(b)
        ELSE LET i == CHOOSE j \in diff : \A k \in diff : j <= k
             IN  a[i] < b[i]

RECURSIVE Digits(_)
Digits(n) ==
    IF n < 10 THEN <<48 + n>> ELSE Digits(n \div 10) \o <<48 + (n % 10)>>

RECURSIVE ZeroPad(_, _)
ZeroPad(s, w) == IF Len(s) >= w THEN s ELSE ZeroPad(<<48>> \o s, w)

\* f"{n:0{w}d}": the sign counts towards the width.
Format(n, w) ==
    IF n < 0 THEN <<45>> \o ZeroPad(Digits(0 - n), w - 1)
    ELSE ZeroPad(Digits(n), w)

(***************************************************************************)
(* Dicts                                                                   *)
(***************************************************************************)
Keys(d) == [i \in 1..Len(d) |-> d[i].key]

KeySet(d) == {d[i].key : i \in 1..Len(d)}

HasKey(d, k) == \E i \in 1..Len(d) : d[i].key = k

IndexOf(d, k) == CHOOSE i \in 1..Len(d) : d[i].key = k

Get(d, k) == d[IndexOf(d, k)]

\* d.pop(k), for a key that is present
Pop(d, k) == SelectSeq(d, LAMBDA e : e.key # k)

\* d[e.key] = e
Put(d, e) ==
    IF HasKey(d, e.key) THEN [d EXCEPT ![IndexOf(d, e.key)] = e]
    ELSE Append(d, e)

RECURSIVE DictUpdate(_, _)
\* d.update(other)
DictUpdate(d, other) ==
    IF other = <<>> THEN d
    ELSE DictUpdate(Put(d, Head(other)), Tail(other))

(***************************************************************************)
(* Files                                                                   *)
(***************************************************************************)
NoFile == [exists |-> FALSE, data |-> <<>>]

File(d) == [exists |-> TRUE, data |-> d]

(***************************************************************************)
(* Status messages: the text and, for the delete messages, the list of     *)
(* names formatted into it.                                                *)
(***************************************************************************)
Msg(text) == [text |-> text, names |-> <<>>]

NoMessage == Msg("")

IntegersMessage == Msg("Start and End values must be integers.")

DigitsMessage == Msg("Start and End values must be within 6 digits.")

OrderMessage == Msg("Start value must be smaller than End value.")

StartKeyMessage == Msg("Start key couldn't be found.")

EndKeyMessage == Msg("End key couldn't be found.")

LastAudioMessage == Msg("Cannot delete the last audio of the dataset")

NoAudiosMessage == Msg("There are no audios to be deleted.")

NoTextMessage == Msg("There are no segments or text available for this audio.")

EmptyJsonMessage ==
    Msg("Something went wrong. Check whether your JSON file is empty.")

SavedMessage == Msg("The JSON was saved.")

\* the messages of delete_entries, lines 245-253
DeleteLogMessage(audio_names, audios_to_delete) ==
    IF audios_to_delete # 0
    THEN IF audios_to_delete = 1
         THEN [text |-> "was successfully deleted from the dataset.",
               names |-> audio_names]
         ELSE [text |-> "were successfully deleted from the dataset.",
               names |-> audio_names]
    ELSE NoAudiosMessage

(***************************************************************************)
(* update_UI: the projection every handler but save_json returns.  The     *)
(* range-delete fields are None, or the value handed through; the cleared  *)
(* value gr.update(value="") is the empty string.  With no record to show  *)
(* the last line (486) adds the tuple all_segment_boxes to a list, which   *)
(* raises TypeError: the handler returns nothing.                          *)
(***************************************************************************)
ClampIndexNoFloor(index, audio_amount) ==
    IF index >= audio_amount THEN audio_amount - 1 ELSE index

ClampIndex(index, audio_amount) ==
    IF index < 0 THEN 0
    ELSE IF index >= audio_amount THEN audio_amount - 1
    ELSE index

ClearUnlessKept(keep, field) == IF keep = FALSE THEN Some(EmptyStr) ELSE field

ProjectedMessage(JSON_reference, info_message) ==
    IF JSON_reference = EmptyStr THEN NoTextMessage ELSE info_message

BlankUI ==
    [audio_name |-> EmptyStr, page |-> 1, message |-> NoMessage,
     delete_start |-> None, delete_end |-> None]

update_UI(data, index, info_message, keep_start, keep_end, delete_start_audio, delete_end_audio) ==
    LET audio_amount == Len(data)
        idx == ClampIndex(index, audio_amount)
    IN  IF 0 <= idx /\ idx < audio_amount
        THEN [raised |-> "none",
              view |-> [audio_name |-> data[idx + 1].key,
                        page |-> idx + 1,
                        message |-> ProjectedMessage(data[idx + 1].text, info_message),
                        delete_start |-> ClearUnlessKept(keep_start, delete_start_audio),
                        delete_end |-> ClearUnlessKept(keep_end, delete_end_audio)]]
        ELSE [raised |-> "TypeError", view |-> BlankUI]

\* what the UI shows after a handler ran: its projection, or what it showed
\* before when the handler raised
Shown(before, projection) ==
    IF projection.raised = "none" THEN projection.view ELSE before

(***************************************************************************)
(* delete_multiple: validation and key resolution (lines 89-132)           *)
(***************************************************************************)
DefaultWidth == 6

MaxIndex == 999999

IndexWidth(index_format) ==
    IF index_format = None THEN DefaultWidth ELSE index_format[1]

\* `if start_key and end_key`: neither None nor the empty string
Truthy(opt) == opt # None /\ opt[1] # EmptyStr

RECURSIVE FindKeys(_, _, _, _, _)
\* the loop of lines 112-119 from position i on
FindKeys(keys, i, formatted_start, formatted_end, found) ==
    IF i > Len(keys) THEN found
    ELSE LET key == keys[i]
             sk == IF Contains(formatted_start, key) THEN Some(key)
                   ELSE found.start_key
             ek == IF Contains(formatted_end, key) THEN Some(key)
                   ELSE found.end_key
             now == [start_key |-> sk, end_key |-> ek]
         IN  IF Truthy(sk) /\ Truthy(ek) THEN now
             ELSE FindKeys(keys, i + 1, formatted_start, formatted_end, now)

InRangeExclusive(start_key, key, end_key) ==
    StrLeq(start_key, key) /\ StrLeq(key, end_key) /\ key # start_key

InRange(start_key, key, end_key) == StrLeq(start_key, key) /\ StrLeq(key, end_key)

\* the loop of lines 124-132: the status it leaves with, and keys_to_delete
CollectKeys(keys, found) ==
    IF Len(keys) = 0 THEN [status |-> "resolved", keys |-> <<>>]
    ELSE IF found.start_key = None THEN [status |-> "no_start", keys |-> <<>>]
    ELSE IF found.end_key = None THEN [status |-> "no_end", keys |-> <<>>]
    ELSE [status |-> "resolved",
          keys |-> SelectSeq(keys, LAMBDA key :
                       InRange(found.start_key[1], key, found.end_key[1]))]

ResolveRange(data, start_audio, end_audio, index_format) ==
    LET width == IndexWidth(index_format)
        unresolved(status) ==
            [status |-> status, keys |-> <<>>,
             start_key |-> None, end_key |-> None]
    IN  IF ~(IsInt(start_audio) /\ IsInt(end_audio)) THEN unresolved("not_int")
        ELSE IF ToInt(start_audio) > MaxIndex \/ ToInt(end_audio) > MaxIndex
             THEN unresolved("too_big")
        ELSE IF ToInt(start_audio) >= ToInt(end_audio) THEN unresolved("inverted")
        ELSE LET found == FindKeys(Keys(data), 1,
                                   Format(ToInt(start_audio), width),
                                   Format(ToInt(end_audio), width),
                                   [start_key |-> None, end_key |-> None])
                 got == CollectKeys(Keys(data), found)
             IN  [status |-> got.status, keys |-> got.keys,
                  start_key |-> found.start_key, end_key |-> found.end_key]

ValidationMessage(status) ==
    CASE status = "not_int" -> IntegersMessage
      [] status = "too_big" -> DigitsMessage
      [] status = "inverted" -> OrderMessage
      [] status = "no_start" -> StartKeyMessage
      [] status = "no_end" -> EndKeyMessage

(***************************************************************************)
(* delete_entries (lines 158-230)                                          *)
(***************************************************************************)
IsLastRecordOffByOne(data) == Len(data) < 1

\* line 174: the only guard of a delete
IsLastRecord(data) == Len(data) <= 1

RECURSIVE PopEntries(_, _, _)
\* lines 179-185: [json_data, discarded_entries] after popping audio_names
PopEntries(data, audio_names, discarded_entries) ==
    IF audio_names = <<>>
    THEN [json_data |-> data, discarded_entries |-> discarded_entries]
    ELSE LET audio_name == Head(audio_names)
         IN  IF HasKey(data, audio_name)
             THEN PopEntries(Pop(data, audio_name), Tail(audio_names),
                             Put(discarded_entries, Get(data, audio_name)))
             ELSE PopEntries(data, Tail(audio_names), discarded_entries)

WriteDiscardedOnlyCreates(ledger_file, discarded_entries) ==
    IF discarded_entries # <<>> /\ ~ledger_file.exists
    THEN File(discarded_entries) ELSE ledger_file

WriteDiscardedOverwrites(ledger_file, discarded_entries) ==
    IF discarded_entries # <<>> THEN File(discarded_entries) ELSE ledger_file

\* lines 195-207: discarded_entries.json after the delete
WriteDiscarded(ledger_file, discarded_entries) ==
    IF discarded_entries # <<>>
    THEN IF ~ledger_file.exists THEN File(discarded_entries)
         ELSE File(DictUpdate(ledger_file.data, discarded_entries))
    ELSE ledger_file

\* delete_from_JSON: the file is read afresh; a dataset of at most one
\* record is left as it is, and the projection built for it (line 176) is
\* dropped by the caller, unless building it raises.
delete_from_JSON(primary_file, ledger_file, audio_names, index) ==
    LET loaded_data == primary_file.data
        popped == PopEntries(loaded_data, audio_names, <<>>)
    IN  IF IsLastRecord(loaded_data)
        THEN [json_data |-> loaded_data, primary |-> primary_file,
              ledger |-> ledger_file, rejected |-> TRUE,
              raised |-> update_UI(loaded_data, index, LastAudioMessage,
                                   FALSE, FALSE, None, None).raised]
        ELSE [json_data |-> popped.json_data,
              primary |-> File(popped.json_data),
              ledger |-> WriteDiscarded(ledger_file, popped.discarded_entries),
              rejected |-> FALSE, raised |-> "none"]

SeqToSet(s) == {s[i] : i \in 1..Len(s)}

\* line 222: the files of the audio folder that are named in audio_names
AudiosToMove(audio_files, audio_names) == audio_files \cap SeqToSet(audio_names)

\* lines 226-230: the sets of files whose move can raise
MoveFailures(faults, candidates) == IF faults THEN SUBSET candidates ELSE {{}}

\* delete_from_audios: every named file is moved, but for those whose move
\* raises (line 229), which stay where they are.
delete_from_audios(audio_files, discarded_files, audio_names, failing) ==
    LET moved == AudiosToMove(audio_files, audio_names) \ failing
    IN  [audio |-> audio_files \ moved, discarded |-> discarded_files \cup moved]

(***************************************************************************)
(* save_json (lines 288-324)                                               *)
(***************************************************************************)
\* line 319: the falsy (empty) field values are dropped
CleanTextboxes(all_segment_boxes) == SelectSeq(all_segment_boxes, LAMBDA v : v # EmptyStr)

\* a ValueError ends the loop instead of skipping the segment
ProcessSegmentsBreak(segments, cleaned, i) ==
    LET bad == {k \in 0..(Len(segments) - 1) :
                   \/ 3 * k + 3 > Len(cleaned)
                   \/ ~IsFloat(cleaned[3 * k + 2])
                   \/ ~IsFloat(cleaned[3 * k + 3])}
        stop == IF bad = {} THEN Len(segments)
                ELSE CHOOSE k \in bad : \A m \in bad : k <= m
    IN  [segments |-> [n \in 1..Len(segments) |->
                          IF n <= stop
                          THEN [text |-> cleaned[3 * n - 2],
                                start |-> ToFloat(cleaned[3 * n - 1]),
                                end |-> ToFloat(cleaned[3 * n])]
                          ELSE segments[n]],
         raised |-> "none"]

RECURSIVE ProcessSegments(_, _, _)
\* lines 292-309 from segment i (0-based) on: the segments, and the fault
\* that ended the loop, if one did.  cleaned[j+1] in Python is cleaned[j+2]
\* here.
ProcessSegments(segments, cleaned, i) ==
    IF i >= Len(segments) THEN [segments |-> segments, raised |-> "none"]
    ELSE LET j == i * 3
         IN  IF j + 1 >= Len(cleaned)
             THEN [segments |-> segments, raised |-> "IndexError"]
             ELSE IF ~IsFloat(cleaned[j + 2])
             THEN ProcessSegments(segments, cleaned, i + 1)
             ELSE IF j + 2 >= Len(cleaned)
             THEN [segments |-> segments, raised |-> "IndexError"]
             ELSE IF ~IsFloat(cleaned[j + 3])
             THEN ProcessSegments(segments, cleaned, i + 1)
             ELSE ProcessSegments(
                      [segments EXCEPT ![i + 1] =
                          [text |-> cleaned[j + 1],
                           start |-> ToFloat(cleaned[j + 2]),
                           end |-> ToFloat(cleaned[j + 3])]],
                      cleaned, i + 1)

\* the record is taken out and put back at the end of the mapping
process_jsonMovesRecord(primary_file, text, audio_name, cleaned_textboxes) ==
    LET loaded_data == primary_file.data
    IN  IF ~HasKey(loaded_data, audio_name)
        THEN [json_data |-> loaded_data, raised |-> "KeyError"]
        ELSE LET i == IndexOf(loaded_data, audio_name)
                 done == ProcessSegments(loaded_data[i].segments, cleaned_textboxes, 0)
             IN  [json_data |-> Append(Pop(loaded_data, audio_name),
                                       [key |-> audio_name, text |-> text,
                                        segments |-> done.segments]),
                  raised |-> done.raised]

\* the new text is appended to the text the record holds
process_jsonAppendsText(primary_file, text, audio_name, cleaned_textboxes) ==
    LET loaded_data == primary_file.data
    IN  IF ~HasKey(loaded_data, audio_name)
        THEN [json_data |-> loaded_data, raised |-> "KeyError"]
        ELSE LET i == IndexOf(loaded_data, audio_name)
                 done == ProcessSegments(loaded_data[i].segments, cleaned_textboxes, 0)
             IN  [json_data |-> [loaded_data EXCEPT ![i] =
                                    [key |-> audio_name,
                                     text |-> loaded_data[i].text \o text,
                                     segments |-> done.segments]],
                  raised |-> done.raised]

\* process_json: [json_data, raised]; the file is rewritten only when
\* nothing was raised.
process_json(primary_file, text, audio_name, cleaned_textboxes) ==
    LET loaded_data == primary_file.data
    IN  IF ~HasKey(loaded_data, audio_name)
        THEN [json_data |-> loaded_data, raised |-> "KeyError"]
        ELSE LET i == IndexOf(loaded_data, audio_name)
                 done == ProcessSegments(loaded_data[i].segments, cleaned_textboxes, 0)
             IN  [json_data |-> [loaded_data EXCEPT ![i] =
                                    [key |-> audio_name, text |-> text,
                                     segments |-> done.segments]],
                  raised |-> done.raised]

(***************************************************************************)
(* handle_pagination (lines 345-351)                                       *)
(***************************************************************************)
NewIndexOneBased(page, delta, go_to) ==
    IF delta # None /\ delta[1] # 0 THEN page + delta[1]
    ELSE IF go_to # None /\ go_to[1] # 0 THEN go_to[1]
    ELSE page - 1

NewIndex(page, delta, go_to) ==
    IF delta # None /\ delta[1] # 0 THEN page - 1 + delta[1]
    ELSE IF go_to # None /\ go_to[1] # 0 THEN go_to[1]
    ELSE page - 1

InBounds(new_index, data) == 0 <= new_index /\ new_index < Len(data)

(***************************************************************************)
(* The working directory and the inputs                                    *)
(***************************************************************************)
MaxClips == 3

MaxDelta == 1

MaxGoTo == 3

Clip(key, text, segments) == [key |-> key, text |-> text, segments |-> segments]

Segment(text, num, scale) ==
    [text |-> text, start |-> [num |-> num, scale |-> scale],
     end |-> [num |-> num + 1, scale |-> scale]]

\* "000001_a" (transcript "h", two segments), "000002_b" (empty
\* transcript), "000003_c", "000004_d", "000005_e" (transcript "n")
ClipUniverse ==
    << Clip(<<48, 48, 48, 48, 48, 49, 95, 97>>, <<104>>,
            <<Segment(<<97>>, 1, 0), Segment(<<98>>, 25, 1)>>),
       Clip(<<48, 48, 48, 48, 48, 50, 95, 98>>, EmptyStr, <<>>),
       Clip(<<48, 48, 48, 48, 48, 51, 95, 99>>, <<110>>, <<>>),
       Clip(<<48, 48, 48, 48, 48, 52, 95, 100>>, <<110>>, <<>>),
       Clip(<<48, 48, 48, 48, 48, 53, 95, 101>>, <<110>>, <<>>) >>

\* the datasets a session starts from: the first 1..MaxClips clips
InitialDatasets ==
    LET n == IF MaxClips < Len(ClipUniverse) THEN MaxClips ELSE Len(ClipUniverse)
    IN  {SubSeq(ClipUniverse, 1, k) : k \in 1..n}

\* (start_audio, end_audio, index_format): "1".."3", "5".."9", "1".."9",
\* "1".."2", "x".."3", "1".."1000000", "3".."1", and "0".."2" with a pad
\* width of 2
RangeInputs ==
    { <<<<49>>, <<51>>, None>>, <<<<53>>, <<57>>, None>>, <<<<49>>, <<57>>, None>>,
      <<<<49>>, <<50>>, None>>, <<<<120>>, <<51>>, None>>,
      <<<<49>>, <<49, 48, 48, 48, 48, 48, 48>>, None>>, <<<<51>>, <<49>>, None>>,
      <<<<48>>, <<50>>, Some(2)>> }

\* the two range-delete fields as handle_pagination receives them: both
\* empty, or "7" and "9"
RangeFields == { <<EmptyStr, EmptyStr>>, <<<<55>>, <<57>>>> }

\* the transcript field: "n"
SaveTexts == {<<110>>}

\* one segment's (text, start, end) fields: valid ("c","4","5.0"), a
\* non-numeric start ("c","x","5"), a non-numeric end ("c","4","y"), a
\* text left blank ("","4","5"), and the fields of a slot that shows no
\* segment
ValidTriple == <<<<99>>, <<52>>, <<53, 46, 48>>>>

BadStartTriple == <<<<99>>, <<120>>, <<53>>>>

BadEndTriple == <<<<99>>, <<52>>, <<121>>>>

BlankTextTriple == <<EmptyStr, <<52>>, <<53>>>>

HiddenTriple == <<EmptyStr, EmptyStr, EmptyStr>>

\* the fields of the two segment slots of the UI, as save_json receives them
BoxInputs ==
    { ValidTriple \o ValidTriple, ValidTriple \o BadStartTriple,
      BadEndTriple \o ValidTriple, HiddenTriple \o HiddenTriple }

Deltas == {None} \cup {Some(d) : d \in (0 - MaxDelta)..MaxDelta}

GoTos == {None} \cup {Some(g) : g \in 0..MaxGoTo}

(***************************************************************************)
(* State                                                                   *)
(***************************************************************************)
VARIABLES
    loaded,            \* load_and_init has set json_path and audio_folder
    json_data,         \* self.json_data
    keep_start_audio,  \* self.keep_start_audio
    keep_end_audio,    \* self.keep_end_audio
    primary,           \* the primary JSON file
    backup,            \* <name>_backup.json
    ledger,            \* Discarded/discarded_entries.json
    audio,             \* the file names in audio/
    discarded_audios,  \* the file names in Discarded/Discarded_Audios/
    ui,                \* the projection last returned to the UI
    last,              \* the last call: handler, arguments, outcome
    load_content,      \* the primary file's content when it was last loaded
    move_faults        \* shutil.move can raise in this directory

vars ==
    <<loaded, json_data, keep_start_audio, keep_end_audio, primary, backup,
      ledger, audio, discarded_audios, ui, last, load_content, move_faults>>

NoCall ==
    [op |-> "none", outcome |-> "none", raised |-> "none", audio_names |-> <<>>,
     log_message |-> NoMessage, start_audio |-> EmptyStr, end_audio |-> EmptyStr,
     index_format |-> None, start_key |-> None, end_key |-> None,
     text |-> EmptyStr, boxes |-> <<>>, repeated |-> FALSE,
     delta |-> None, go_to |-> None, index |-> None]

\* __init__ (lines 11-16), in a directory holding a dataset whose audio
\* folder has one file per key
InitFrom(datasets) ==
    /\ loaded = FALSE
    /\ json_data = <<>>
    /\ keep_start_audio = FALSE
    /\ keep_end_audio = FALSE
    /\ \E d \in datasets :
          /\ primary = File(d)
          /\ audio = KeySet(d)
    /\ backup = NoFile
    /\ ledger = NoFile
    /\ discarded_audios = {}
    /\ ui = BlankUI
    /\ last = NoCall
    /\ load_content = <<>>
    /\ move_faults = FALSE

Init == InitFrom(InitialDatasets)

(***************************************************************************)
(* Handlers                                                                *)
(***************************************************************************)
CopyFileTruncated(source_file) == File(<<>>)

\* shutil.copy(original_json_path, backup_json_path), line 57
CopyFile(source_file) == source_file

\* load_and_init (lines 48-66)
load_and_init ==
    /\ ~loaded
    /\ backup' = CopyFile(primary)
    /\ loaded' = TRUE
    /\ json_data' = primary.data
    /\ ui' = Shown(ui, update_UI(primary.data, 0, NoMessage, keep_start_audio,
                                 keep_end_audio, None, None))
    /\ last' = [NoCall EXCEPT !.op = "load_and_init", !.outcome = "loaded"]
    /\ load_content' = primary
    /\ UNCHANGED <<keep_start_audio, keep_end_audio, primary, ledger, audio,
                   discarded_audios, move_faults>>

\* delete_entries (lines 234-256) for the list audio_names, with the sticky
\* flags as the caller left them
DeleteBatch(op, index, audio_names, audios_to_delete, failing, keep_start, keep_end, call) ==
    LET json_side == delete_from_JSON(primary, ledger, audio_names, index)
        audio_side ==
            IF json_side.raised = "none"
            THEN delete_from_audios(audio, discarded_audios, audio_names, failing)
            ELSE [audio |-> audio, discarded |-> discarded_audios]
        log_message == DeleteLogMessage(audio_names, audios_to_delete)
        projection ==
            IF json_side.raised = "none"
            THEN update_UI(json_side.json_data, index - 1, log_message,
                           keep_start, keep_end, None, None)
            ELSE [raised |-> json_side.raised, view |-> BlankUI]
    IN  /\ json_data' = json_side.json_data
        /\ primary' = json_side.primary
        /\ ledger' = json_side.ledger
        /\ audio' = audio_side.audio
        /\ discarded_audios' = audio_side.discarded
        /\ ui' = Shown(ui, projection)
        /\ last' = [call EXCEPT !.op = op,
                                !.outcome = IF json_side.rejected THEN "rejected" ELSE "deleted",
                                !.raised = projection.raised,
                                !.audio_names = audio_names,
                                !.log_message = log_message]

\* delete_entries called for the one name audio_name (audios_to_delete = 1)
delete_entries ==
    /\ loaded
    /\ \E audio_name \in KeySet(ClipUniverse) \cup {ui.audio_name} :
       \E failing \in MoveFailures(move_faults, AudiosToMove(audio, <<audio_name>>)) :
          DeleteBatch("delete_entries", ui.page, <<audio_name>>, 1, failing,
                      keep_start_audio, keep_end_audio, NoCall)
    /\ UNCHANGED <<loaded, keep_start_audio, keep_end_audio, backup, load_content,
                   move_faults>>

\* lines 97, 100, 103, 126, 129: the projection of a rejected range
Rejection(data, index, status) ==
    update_UI(data, index - 1, ValidationMessage(status), FALSE, FALSE, None, None)

\* delete_multiple (lines 86-137)
delete_multiple ==
    /\ loaded
    /\ keep_start_audio' = FALSE
    /\ keep_end_audio' = FALSE
    /\ \E input \in RangeInputs :
          LET range == ResolveRange(json_data, input[1], input[2], input[3])
              call == [NoCall EXCEPT !.start_audio = input[1],
                                     !.end_audio = input[2],
                                     !.index_format = input[3],
                                     !.start_key = range.start_key,
                                     !.end_key = range.end_key]
          IN  IF range.status = "resolved"
              THEN \E failing \in MoveFailures(move_faults, AudiosToMove(audio, range.keys)) :
                      DeleteBatch("delete_multiple", ui.page, range.keys, Len(range.keys),
                                  failing, FALSE, FALSE, call)
              ELSE /\ ui' = Shown(ui, Rejection(json_data, ui.page, range.status))
                   /\ last' = [call EXCEPT !.op = "delete_multiple",
                                           !.outcome = range.status,
                                           !.raised = Rejection(json_data, ui.page,
                                                                range.status).raised,
                                           !.log_message = ValidationMessage(range.status)]
                   /\ UNCHANGED <<json_data, primary, ledger, audio, discarded_audios>>
    /\ UNCHANGED <<loaded, backup, load_content, move_faults>>

\* save_json (lines 315-324) for audio_name, with `call` the record kept of
\* the call
SaveCall(text, audio_name, all_segment_boxes, call) ==
    LET done == process_json(primary, text, audio_name,
                             CleanTextboxes(all_segment_boxes))
    IN  /\ json_data' = done.json_data
        /\ primary' = IF done.raised = "none" THEN File(done.json_data) ELSE primary
        /\ last' = [call EXCEPT !.op = "save_json",
                                !.outcome = IF done.raised = "none"
                                            THEN "saved" ELSE "aborted",
                                !.raised = done.raised,
                                !.audio_names = <<audio_name>>,
                                !.log_message = IF done.raised = "none"
                                                THEN SavedMessage ELSE NoMessage,
                                !.text = text,
                                !.boxes = all_segment_boxes]
        /\ UNCHANGED <<loaded, keep_start_audio, keep_end_audio, backup, ledger,
                       audio, discarded_audios, ui, load_content, move_faults>>

\* save_json for the record the UI shows
save_json ==
    /\ loaded
    /\ \E text \in SaveTexts, all_segment_boxes \in BoxInputs :
          SaveCall(text, ui.audio_name, all_segment_boxes, NoCall)

\* lines 358-363: the projection at new_index, or at the page shown when
\* new_index is out of bounds (the fields are then passed by position, as
\* segment boxes, and the range-delete fields are left None)
Paginate(data, page, new_index, keep_start, keep_end, delete_start_audio, delete_end_audio) ==
    IF InBounds(new_index, data)
    THEN update_UI(data, new_index, NoMessage, keep_start, keep_end,
                   Some(delete_start_audio), Some(delete_end_audio))
    ELSE update_UI(data, page - 1, NoMessage, keep_start, keep_end, None, None)

\* handle_pagination (lines 345-363) for page, with `call` the record kept
\* of the call
PaginationCall(page, delete_start_audio, delete_end_audio, delta, go_to, call) ==
    LET new_index == NewIndex(page, delta, go_to)
        keep_start == (delete_start_audio # EmptyStr)
        keep_end == (delete_end_audio # EmptyStr)
        projection == Paginate(json_data, page, new_index, keep_start, keep_end,
                               delete_start_audio, delete_end_audio)
    IN  /\ keep_start_audio' = keep_start
        /\ keep_end_audio' = keep_end
        /\ ui' = Shown(ui, projection)
        /\ last' = [call EXCEPT !.op = "handle_pagination",
                                !.outcome = IF InBounds(new_index, json_data)
                                            THEN "moved" ELSE "stayed",
                                !.raised = projection.raised]
        /\ UNCHANGED <<loaded, json_data, primary, backup, ledger, audio,
                       discarded_audios, load_content, move_faults>>

\* handle_pagination from the page the UI shows, by a delta or to a page
handle_pagination ==
    /\ loaded
    /\ \E delta \in Deltas, go_to \in GoTos, fields \in RangeFields :
          /\ delta = None \/ go_to = None
          /\ PaginationCall(ui.page, fields[1], fields[2], delta, go_to, NoCall)

Next ==
    \/ load_and_init
    \/ delete_entries
    \/ delete_multiple
    \/ save_json
    \/ handle_pagination

Spec == Init /\ [][Next]_vars

(***************************************************************************)
(* Saving: a session of loads, page turns and saves, where the record of a *)
(* save tells whether it repeats the call before it                        *)
(***************************************************************************)
\* the transcript field: "n" or "m"
SaveTextInputs == SaveTexts \cup {<<109>>}

\* the segment fields, also with the text of the first segment left blank
SaveBoxInputs == BoxInputs \cup {BlankTextTriple \o ValidTriple}

\* the save repeats the last call: save_json with the same arguments
RepeatsLast(text, audio_name, all_segment_boxes) ==
    /\ last.op = "save_json"
    /\ last.audio_names = <<audio_name>>
    /\ last.text = text
    /\ last.boxes = all_segment_boxes

\* save_json for the record the UI shows
save_json_next ==
    /\ loaded
    /\ \E text \in SaveTextInputs, all_segment_boxes \in SaveBoxInputs :
          SaveCall(text, ui.audio_name, all_segment_boxes,
                   [NoCall EXCEPT !.repeated =
                       RepeatsLast(text, ui.audio_name, all_segment_boxes)])

SaveNext ==
    \/ load_and_init
    \/ handle_pagination
    \/ save_json_next

SaveSpec == Init /\ [][SaveNext]_vars

(***************************************************************************)
(* Paging: a session of loads, page turns and projections on datasets of   *)
(* up to five records, where the record of a call keeps its delta, go_to   *)
(* or index                                                                *)
(***************************************************************************)
MaxOvershoot == 3

\* the datasets a paging session starts from: the first 1..5 clips
PagingDatasets == {SubSeq(ClipUniverse, 1, k) : k \in 1..Len(ClipUniverse)}

PagingDeltas == {None} \cup {Some(d) : d \in (0 - MaxDelta - 1)..(MaxDelta + 1)}

PagingGoTos == {None} \cup {Some(g) : g \in 0..(MaxGoTo + 2)}

\* the indices update_UI is called with: up to MaxOvershoot beyond each end
ProjectionIndices == (0 - MaxOvershoot)..(Len(json_data) - 1 + MaxOvershoot)

PagingInit == InitFrom(PagingDatasets)

\* handle_pagination from the page the UI shows
handle_pagination_next ==
    /\ loaded
    /\ \E delta \in PagingDeltas, go_to \in PagingGoTos, fields \in RangeFields :
          /\ delta = None \/ go_to = None
          /\ PaginationCall(ui.page, fields[1], fields[2], delta, go_to,
                            [NoCall EXCEPT !.delta = delta, !.go_to = go_to])

\* update_UI (lines 440-486) called with any index, no message and no
\* range-delete fields
update_UI_next ==
    /\ loaded
    /\ \E index \in ProjectionIndices :
          LET projection == update_UI(json_data, index, NoMessage, keep_start_audio,
                                      keep_end_audio, None, None)
          IN  /\ ui' = Shown(ui, projection)
              /\ last' = [NoCall EXCEPT !.op = "update_UI",
                                        !.outcome = "projected",
                                        !.raised = projection.raised,
                                        !.index = Some(index)]
    /\ UNCHANGED <<loaded, json_data, keep_start_audio, keep_end_audio, primary,
                   backup, ledger, audio, discarded_audios, load_content, move_faults>>

PagingNext ==
    \/ load_and_init
    \/ handle_pagination_next
    \/ update_UI_next

PagingSpec == PagingInit /\ [][PagingNext]_vars

(***************************************************************************)
(* Properties                                                              *)
(***************************************************************************)
\* this step ran delete_entries, directly or from delete_multiple
BatchRan == last'.op \in {"delete_entries", "delete_multiple"}
            /\ last'.outcome \in {"rejected", "deleted"}

\* C1: a delete that the last-record check lets through keeps
\* size(primary) + size(ledger), and every key it removes from the primary
\* file is in the ledger with the record the primary file held for it.
DeleteKeepsEveryRecord ==
    [][(BatchRan /\ Len(primary.data) > 1) =>
          /\ Len(primary'.data) + Len(ledger'.data) = Len(primary.data) + Len(ledger.data)
          /\ \A k \in KeySet(primary.data) \ KeySet(primary'.data) :
                /\ HasKey(ledger'.data, k)
                /\ Get(ledger'.data, k) = Get(primary.data, k)]_vars

\* a batch of two was deleted after an earlier delete, and both are in the
\* ledger
BatchOfTwoDiscarded ==
    /\ last.op = "delete_multiple"
    /\ last.outcome = "deleted"
    /\ Len(last.audio_names) = 2
    /\ Len(ledger.data) = 3
    /\ SeqToSet(last.audio_names) \subseteq KeySet(ledger.data)

\* C2: the primary dataset always holds at least one record.
AlwaysOneRecord == Len(primary.data) >= 1

\* C3: when no move fails, after every operation that returns the audio
\* folder holds exactly the files named by the keys of the primary dataset.
AudioMatchesDataset ==
    (loaded /\ ~move_faults /\ last.raised = "none") => audio = KeySet(primary.data)

\* C4: a delete called on a dataset of exactly one record changes neither
\* the primary file nor the ledger.
LastRecordIsKept ==
    [][(BatchRan /\ Len(primary.data) = 1) =>
          /\ primary' = primary
          /\ ledger' = ledger]_vars

\* the delete of the only record was asked for, after an earlier delete
\* filled the ledger
LastRecordDeleteAsked ==
    /\ last.op = "delete_entries"
    /\ last.outcome = "rejected"
    /\ Len(primary.data) = 1
    /\ last.audio_names = <<primary.data[1].key>>
    /\ ledger.exists

\* C5: once loaded, the backup file holds what the primary file held at
\* load, whatever was done since.
BackupIsLoadSnapshot ==
    loaded => (backup.exists /\ backup = load_content)

\* the primary file has been rewritten since the load, by a save and by a
\* delete
PrimaryChangedSinceLoad ==
    /\ loaded
    /\ backup = load_content
    /\ Len(primary.data) < Len(load_content.data)
    /\ \E i \in 1..Len(primary.data) :
          primary.data[i] # Get(load_content.data, primary.data[i].key)

RangeRejections == {"not_int", "too_big", "inverted", "no_start", "no_end"}

\* C6: a delete_multiple whose inputs fail validation changes nothing and
\* returns a projection that carries the message of the violation.
RejectedRangeShowsItsMessage ==
    [][(last'.op = "delete_multiple" /\ last'.outcome \in RangeRejections
        /\ Len(json_data) > 0) =>
          /\ UNCHANGED <<primary, json_data, ledger, audio, discarded_audios>>
          /\ ui'.message = ValidationMessage(last'.outcome)]_vars

\* "000001_a", "000002_b", "000003_c"
ExampleKeys ==
    << <<48, 48, 48, 48, 48, 49, 95, 97>>, <<48, 48, 48, 48, 48, 50, 95, 98>>,
       <<48, 48, 48, 48, 48, 51, 95, 99>> >>

\* the keys that contain the number n, zero-padded to the width of the call
KeysWithNumber(data, n, index_format) ==
    {k \in KeySet(data) : Contains(Format(n, IndexWidth(index_format)), k)}

LastRecordDeleteSaysRejected ==
    [][(last'.op = "delete_entries" /\ Len(primary.data) = 1 /\ last'.raised = "none") =>
          ui'.message = LastAudioMessage]_vars

\* C9: after every delete that went through, both sticky flags are false and
\* both range-delete fields of the projection are empty.
DeleteClearsRangeFields ==
    [][(BatchRan /\ last'.outcome = "deleted" /\ last'.raised = "none") =>
          /\ keep_start_audio' = FALSE
          /\ keep_end_audio' = FALSE
          /\ ui'.delete_start = Some(EmptyStr)
          /\ ui'.delete_end = Some(EmptyStr)]_vars

\* the fields of segment n (1-based) in the flat sequence of boxes
BoxText(boxes, n) == boxes[3 * n - 2]

BoxStart(boxes, n) == boxes[3 * n - 1]

BoxEnd(boxes, n) == boxes[3 * n]

BadTimes(boxes, n) == ~IsFloat(BoxStart(boxes, n)) \/ ~IsFloat(BoxEnd(boxes, n))

SaveTwiceSameFile ==
    [][(last'.op = "save_json" /\ last'.repeated) => primary' = primary]_vars

\* the first record was saved twice with the same valid fields, and the
\* file is no longer what was loaded
SavedTwice ==
    /\ last.op = "save_json"
    /\ last.repeated
    /\ last.raised = "none"
    /\ last.boxes = ValidTriple \o ValidTriple
    /\ last.audio_names = <<ClipUniverse[1].key>>
    /\ primary # load_content
    /\ Get(primary.data, ClipUniverse[1].key).text = last.text

Clamped(i, n) == IF i < 0 THEN 0 ELSE IF i > n - 1 THEN n - 1 ELSE i

\* C12: on a dataset of n >= 1 records update_UI called with index i
\* projects the record at max(0, min(i, n-1)) and returns that index plus
\* one as the page; with n = 5, index 7 projects index 4 and index -1
\* projects index 0.
ProjectionClampsIndex ==
    [][(last'.op = "update_UI" /\ Len(json_data) >= 1) =>
          LET i == last'.index[1]
              n == Len(json_data)
          IN  /\ last'.raised = "none"
              /\ ui'.page = Clamped(i, n) + 1
              /\ ui'.audio_name = json_data[Clamped(i, n) + 1].key
              /\ (n = 5 /\ i = 7) => ui'.audio_name = ClipUniverse[5].key
              /\ (n = 5 /\ i = 0 - 1) => ui'.audio_name = ClipUniverse[1].key]_vars

\* index 7 was projected on a dataset of five records
IndexSevenOfFiveProjected ==
    /\ last.op = "update_UI"
    /\ last.index = Some(7)
    /\ Len(json_data) = 5
    /\ ui.page = 5
    /\ ui.audio_name = ClipUniverse[5].key

\* C16: on a dataset of n >= 1 records, handle_pagination called from page
\* p with a delta returns page p when p - 1 + delta is outside 0..n-1 and
\* page p + delta when it is inside; and whatever the call, the page it
\* returns is within 1..n.
DeltaStaysInDataset ==
    [][(last'.op = "handle_pagination" /\ Len(json_data) >= 1) =>
          LET p == ui.page
              n == Len(json_data)
              call == last'
          IN  /\ p \in 1..n
              /\ ui'.page \in 1..n
              /\ (call.delta # None /\ call.go_to = None) =>
                    ui'.page = IF 0 <= p - 1 + call.delta[1] /\ p - 1 + call.delta[1] < n
                               THEN p + call.delta[1]
                               ELSE p]_vars

\* a step of +1 from the last of five pages was refused
StepPastLastPageRefused ==
    /\ last.op = "handle_pagination"
    /\ last.delta = Some(1)
    /\ last.go_to = None
    /\ last.outcome = "stayed"
    /\ Len(json_data) = 5
    /\ ui.page = 5

\* C17: handle_pagination called with go_to = g and no delta, for any g
\* with 0 <= g < dataset size, projects the record at index g.
GoToProjectsThatIndex ==
    [][(last'.op = "handle_pagination" /\ last'.delta = None /\ last'.go_to # None
        /\ last'.go_to[1] >= 0 /\ last'.go_to[1] < Len(json_data)) =>
          /\ ui'.page = last'.go_to[1] + 1
          /\ ui'.audio_name = json_data[last'.go_to[1] + 1].key]_vars

\* C13: the set of keys in discarded_entries.json never shrinks, and every
\* key removed from the primary dataset since the load is in the ledger.
LedgerOnlyGrows ==
    [][loaded' =>
          /\ KeySet(ledger.data) \subseteq KeySet(ledger'.data)
          /\ (KeySet(load_content'.data) \ KeySet(primary'.data))
                 \subseteq KeySet(ledger'.data)]_vars

\* a second delete added its key to a ledger that held another key
SecondDeleteInLedger ==
    /\ last.op = "delete_entries"
    /\ last.outcome = "deleted"
    /\ Len(ledger.data) = 2
    /\ Len(primary.data) = 1
    /\ last.audio_names[1] = ledger.data[2].key
    /\ KeySet(ledger.data) \cap KeySet(primary.data) = {}

\* the first key, in iteration order, that contains the number n padded to
\* the width of the call; None when no key contains it
FirstKeyWith(data, n, index_format) ==
    LET at == {i \in 1..Len(data) :
                  Contains(Format(n, IndexWidth(index_format)), data[i].key)}
    IN  IF at = {} THEN None
        ELSE Some(data[CHOOSE i \in at : \A j \in at : i <= j].key)

\* C14: in delete_multiple start_key is the first key in iteration order
\* that contains the padded start number, and end_key the first that
\* contains the padded end number, also when several keys contain it.
RangeKeysAreFirstMatches ==
    [][(last'.op = "delete_multiple"
        /\ last'.outcome \notin {"not_int", "too_big", "inverted"}) =>
          /\ last'.start_key =
                FirstKeyWith(json_data, ToInt(last'.start_audio), last'.index_format)
          /\ last'.end_key =
                FirstKeyWith(json_data, ToInt(last'.end_audio), last'.index_format)]_vars

BlankField(boxes, n) ==
    \/ BoxText(boxes, n) = EmptyStr
    \/ BoxStart(boxes, n) = EmptyStr
    \/ BoxEnd(boxes, n) = EmptyStr

\* C15: a save for a key of the dataset always returns the confirmation
\* message, whatever the segment fields: a segment with a blank or
\* non-numeric field keeps its values, and the other segments are written.
SaveAlwaysReturns ==
    [][(last'.op = "save_json" /\ HasKey(primary.data, ui.audio_name)) =>
          LET before == Get(primary.data, ui.audio_name)
              after == Get(primary'.data, ui.audio_name)
              boxes == last'.boxes
          IN  /\ last'.raised = "none"
              /\ last'.log_message = SavedMessage
              /\ Len(after.segments) = Len(before.segments)
              /\ \A n \in 1..Len(before.segments) :
                    after.segments[n] =
                        IF BlankField(boxes, n) \/ BadTimes(boxes, n)
                        THEN before.segments[n]
                        ELSE [text |-> BoxText(boxes, n),
                              start |-> ToFloat(BoxStart(boxes, n)),
                              end |-> ToFloat(BoxEnd(boxes, n))]]_vars

\* C20: once loaded, after every call the in-memory dataset is the content
\* of the primary file, also after a save that aborted.
MemoryMatchesFile == loaded => json_data = primary.data

\* C18: a save for key k changes no record of the primary file but k, keeps
\* the keys and their order, and keeps the number of segments of k.
SaveChangesOneRecord ==
    [][(last'.op = "save_json") =>
          /\ Keys(primary'.data) = Keys(primary.data)
          /\ \A i \in 1..Len(primary.data) :
                \/ primary'.data[i] = primary.data[i]
                \/ /\ primary.data[i].key = last'.audio_names[1]
                   /\ Len(primary'.data[i].segments) = Len(primary.data[i].segments)]_vars

\* the second of three records was saved with a new text, between two
\* records that are as loaded
MiddleRecordSaved ==
    /\ last.op = "save_json"
    /\ last.raised = "none"
    /\ Len(primary.data) = 3
    /\ last.audio_names = <<primary.data[2].key>>
    /\ primary.data[2].text = last.text
    /\ primary.data[2] # load_content.data[2]
    /\ primary.data[1] = load_content.data[1]
    /\ primary.data[3] = load_content.data[3]

\* C19: the audio folder and Discarded_Audios are disjoint and together
\* hold the files the audio folder held at first; a file is in
\* Discarded_Audios only if its key is out of the primary dataset and in the
\* ledger.
AudioOnlyMovedWithRecord ==
    loaded =>
       /\ audio \cap discarded_audios = {}
       /\ audio \cup discarded_audios = KeySet(load_content.data)
       /\ \A f \in discarded_audios :
             /\ ~HasKey(primary.data, f)
             /\ HasKey(ledger.data, f)

====
